---- MODULE Spec2Model ----
(***************************************************************************)
(* State-machine model of augmentor.py: run() fans the selected files out  *)
(* over a ThreadPool whose threads each execute process_image(file) on the *)
(* module-level globals `stats` and `hashes`.                              *)
(*                                                                         *)
(* Images are abstracted to what process_image reads of them: whether the  *)
(* file decodes, its width and height, and its average_hash fingerprint.   *)
(* A generated variant is abstracted to its fingerprint, which is drawn    *)
(* nondeterministically (it depends on pixels, crop box and autocontrast). *)
(* Floats are modelled as exact rationals <<num, den>> with den > 0.       *)
(***************************************************************************)
EXTENDS Integers, Sequences, FiniteSets, TLC

\* ------------------------------------------------------------- bounds
MaxFiles == 2        \* length of the selected file list
MaxThreads == 2      \* config.threads ranges over 1..MaxThreads
MaxCrops == 2        \* config.crops ranges over 1..MaxCrops
NumFps == 2          \* distinct fingerprints an image or a variant may have
ScaleDen == 2        \* scales are drawn from the grid k / ScaleDen
MaxTargetW == 2      \* config.width  ranges over 1..MaxTargetW (SpecCrop)
MaxTargetH == 3      \* config.height ranges over 1..MaxTargetH (SpecCrop)
MaxImageW == 2       \* source width  ranges over 1..MaxImageW  (SpecCrop)
MaxImageH == 5       \* source height ranges over 1..MaxImageH  (SpecCrop)

Threads == 1..MaxThreads
Fps == 1..NumFps

VARIABLES
    config,           \* the parsed arguments (immutable during the run)
    files,            \* the selected file list, a sequence of images
    stats,            \* [images_collected, images_duplicated]
    hashes,           \* the global list of input hashes
    mainpc,           \* position of run(): start, running, reported, aborted, exited
    next_file,        \* index of the next file the pool hands to a thread
    outcome,          \* per file: [tag, count], the line process_image printed
    written,          \* output files saved, as <<file index, n>>
    pc,               \* per thread: position inside process_image
    task,             \* per thread: index of the file being processed (0: none)
    variants,         \* per thread: fingerprints of the generated variants, by n
    crop_box,         \* per thread: the last crop_box (left, top, right, bottom)
    variants_hashes,  \* per thread: local list of variant hashes
    variants_saved,   \* per thread: local counter
    k,                \* per thread: position of the save loop in variants
    tmp               \* per thread: the value read by a `+=` before it is stored

shared == <<config, files, stats, hashes, mainpc, next_file, outcome, written>>
locals == <<pc, task, variants, crop_box, variants_hashes, variants_saved, k, tmp>>
vars == <<config, files, stats, hashes, mainpc, next_file, outcome, written,
          pc, task, variants, crop_box, variants_hashes, variants_saved, k, tmp>>

\* ------------------------------------------------------------ rationals
Leq(a, b) == a[1] * b[2] <= b[1] * a[2]

RMax(a, b) == IF Leq(a, b) THEN b ELSE a

RMin(a, b) == IF Leq(a, b) THEN a ELSE b

\* Python's round() of the non-negative rational num / den: to the nearest
\* integer, ties to the even one.
round(num, den) ==
    LET q == num \div den
        r == num % den
    IN  IF 2 * r < den THEN q
        ELSE IF 2 * r > den THEN q + 1
        ELSE IF q % 2 = 0 THEN q ELSE q + 1

\* random.uniform(a, b) = a + (b - a) * random(): any value between the two
\* ends, whichever is larger; here the ends and the grid points between them.
uniform(a, b) ==
    {a, b} \cup {s \in {<<i, ScaleDen>> : i \in 0..ScaleDen} :
                    Leq(RMin(a, b), s) /\ Leq(s, RMax(a, b))}

\* ------------------------------------------------------------- helpers
\* As get_max_window_size, with the two constrained branches exchanged.
get_max_window_size_swapped(image, ratio) ==
    LET width == image.width
        height == image.height
    IN  IF ratio[1] * height = width * ratio[2] THEN <<width, height>>
        ELSE IF ratio[1] * height > width * ratio[2]
             THEN <<round(height * ratio[1], ratio[2]), height>>
             ELSE <<width, round(width * ratio[2], ratio[1])>>

\* get_max_window_size(image, ratio), ratio = <<config.width, config.height>>
get_max_window_size(image, ratio) ==
    LET width == image.width
        height == image.height
    IN  IF ratio[1] * height = width * ratio[2] THEN <<width, height>>
        ELSE IF ratio[1] * height > width * ratio[2]
             THEN <<width, round(width * ratio[2], ratio[1])>>
             ELSE <<round(height * ratio[1], ratio[2]), height>>

NoBox == <<0, 0, 0, 0>>

NoOutcome == [tag |-> "none", count |-> 0]

\* window_max, and (window_width, window_height) for a drawn scale.
WindowMax(image) == get_max_window_size(image, <<config.width, config.height>>)

\* random.uniform(max(scale_min, config.scale_min), config.scale_max), with
\* scale_min = config.width / window_max[0]
Scales(image) ==
    uniform(RMax(<<config.width, WindowMax(image)[1]>>, config.scale_min),
            config.scale_max)

window_width(image, scale) == round(scale[1] * WindowMax(image)[1], scale[2])

\* A window height computed from window_max[0] instead of window_max[1].
window_height_from_width(image, scale) ==
    round(scale[1] * WindowMax(image)[1], scale[2])

window_height(image, scale) == round(scale[1] * WindowMax(image)[2], scale[2])

\* ----------------------------------------------------------- the inputs
BadFile == [ok |-> FALSE, width |-> 0, height |-> 0, hash |-> 0]

Image(w, h, fp) == [ok |-> TRUE, width |-> w, height |-> h, hash |-> fp]

\* print_config's assertions: crops > 0 and 0 <= scale_min <= scale_max <= 1.
ValidConfig(c) ==
    /\ c.crops > 0
    /\ Leq(<<0, 1>>, c.scale_min)
    /\ Leq(c.scale_min, c.scale_max)
    /\ Leq(c.scale_max, <<1, 1>>)

Grid == {<<i, ScaleDen>> : i \in 0..ScaleDen}

\* Spec: a 2x2 target; files that do not decode, are too small, or are large
\* enough with one of NumFps fingerprints.
PipelineImages == {BadFile, Image(1, 2, 1)} \cup {Image(2, 2, fp) : fp \in Fps}

PipelineConfigs ==
    { c \in [threads : Threads, dedupe_input : BOOLEAN, dry : BOOLEAN,
             crops : 1..MaxCrops, width : {2}, height : {2},
             scale_min : {<<1, 2>>}, scale_max : {<<1, 1>>}] : ValidConfig(c) }

InitState ==
    /\ stats = [images_collected |-> 0, images_duplicated |-> 0]
    /\ hashes = <<>>
    /\ mainpc = "start"
    /\ next_file = 1
    /\ outcome = [i \in 1..Len(files) |-> NoOutcome]
    /\ written = {}
    /\ pc = [t \in Threads |-> "idle"]
    /\ task = [t \in Threads |-> 0]
    /\ variants = [t \in Threads |-> <<>>]
    /\ crop_box = [t \in Threads |-> NoBox]
    /\ variants_hashes = [t \in Threads |-> <<>>]
    /\ variants_saved = [t \in Threads |-> 0]
    /\ k = [t \in Threads |-> 0]
    /\ tmp = [t \in Threads |-> 0]

\* Input fingerprints are only ever compared for equality, so the file lists
\* name them in order of first appearance.
InOrder(fs) ==
    \A i \in 1..Len(fs) :
        fs[i].hash > 1 => \E j \in 1..(i - 1) : fs[j].hash >= fs[i].hash - 1

Init ==
    /\ config \in PipelineConfigs
    /\ files \in {fs \in UNION {[1..len -> PipelineImages] : len \in 0..MaxFiles} :
                    InOrder(fs)}
    /\ InitState

\* ------------------------------------------------------------ run()
\* As Start, without the test of config.dry.
StartIgnoresDry ==
    /\ mainpc = "start"
    /\ mainpc' = IF Len(files) <= 0 THEN "exited" ELSE "running"
    /\ UNCHANGED <<config, files, stats, hashes, next_file, outcome, written>>
    /\ UNCHANGED locals

\* run(): print_config, file selection, the dry-run / no-files exit, and the
\* creation of ThreadPool(config.threads).
Start ==
    /\ mainpc = "start"
    /\ mainpc' = IF config.dry \/ Len(files) <= 0 THEN "exited" ELSE "running"
    /\ UNCHANGED <<config, files, stats, hashes, next_file, outcome, written>>
    /\ UNCHANGED locals

Terminal(i) == outcome[i].tag \in {"ERROR", "SKIPPED", "DUPLICATE", "OK"}

\* The result loop has received every result and none re-raised: pprint(stats).
Report ==
    /\ mainpc = "running"
    /\ \A i \in 1..Len(files) : Terminal(i)
    /\ mainpc' = "reported"
    /\ UNCHANGED <<config, files, stats, hashes, next_file, outcome, written>>
    /\ UNCHANGED locals

\* imap_unordered's iterator re-raises, in the result loop, the exception a
\* call of process_image ended with: run() dies before pprint(stats), and the
\* pool's daemon threads die with the interpreter.
Abort ==
    /\ mainpc = "running"
    /\ \E i \in 1..Len(files) : outcome[i].tag = "RAISED"
    /\ mainpc' = "aborted"
    /\ UNCHANGED <<config, files, stats, hashes, next_file, outcome, written>>
    /\ UNCHANGED locals

\* ------------------------------------------------------ process_image
\* A pool that runs a task on any thread, whatever --threads says.
RunningAnyThread(t) == mainpc = "running"

Running(t) == mainpc = "running" /\ t <= config.threads

\* The function returned (or raised): its locals are gone.
Return(t) ==
    /\ pc' = [pc EXCEPT ![t] = "idle"]
    /\ task' = [task EXCEPT ![t] = 0]
    /\ variants' = [variants EXCEPT ![t] = <<>>]
    /\ crop_box' = [crop_box EXCEPT ![t] = NoBox]
    /\ variants_hashes' = [variants_hashes EXCEPT ![t] = <<>>]
    /\ variants_saved' = [variants_saved EXCEPT ![t] = 0]
    /\ k' = [k EXCEPT ![t] = 0]
    /\ tmp' = [tmp EXCEPT ![t] = 0]

Goto(t, label) == pc' = [pc EXCEPT ![t] = label]

Ends(t, tag, count) ==
    outcome' = [outcome EXCEPT ![task[t]] = [tag |-> tag, count |-> count]]

\* A pool thread takes the next file of the list and calls process_image.
\* The threads are interchangeable: the idle thread of least number takes it.
Dispatch(t) ==
    /\ Running(t)
    /\ pc[t] = "idle"
    /\ \A u \in 1..(t - 1) : pc[u] # "idle"
    /\ next_file <= Len(files)
    /\ task' = [task EXCEPT ![t] = next_file]
    /\ next_file' = next_file + 1
    /\ Goto(t, "load")
    /\ UNCHANGED <<config, files, stats, hashes, mainpc, outcome, written>>
    /\ UNCHANGED <<variants, crop_box, variants_hashes, variants_saved, k, tmp>>

\* As LoadError, without the try/except around Image.open.
LoadErrorUncaught(t) ==
    /\ Running(t)
    /\ pc[t] = "load"
    /\ ~files[task[t]].ok
    /\ Ends(t, "RAISED", 0)
    /\ Return(t)
    /\ UNCHANGED <<config, files, stats, hashes, mainpc, next_file, written>>

\* Image.open(file).convert('RGB') raises: ERROR is printed, return.
LoadError(t) ==
    /\ Running(t)
    /\ pc[t] = "load"
    /\ ~files[task[t]].ok
    /\ Ends(t, "ERROR", 0)
    /\ Return(t)
    /\ UNCHANGED <<config, files, stats, hashes, mainpc, next_file, written>>

TooSmallBothSides(image) ==
    image.width < config.width /\ image.height < config.height

TooSmallWidthOnly(image) == image.width < config.width

TooSmall(image) == image.width < config.width \/ image.height < config.height

\* The image is smaller than the required size: SKIPPED is printed, return.
SkipSmall(t) ==
    /\ Running(t)
    /\ pc[t] = "load"
    /\ files[task[t]].ok
    /\ TooSmall(files[task[t]])
    /\ Ends(t, "SKIPPED", 0)
    /\ Return(t)
    /\ UNCHANGED <<config, files, stats, hashes, mainpc, next_file, written>>

\* The image loaded and is large enough.
LoadOk(t) ==
    /\ Running(t)
    /\ pc[t] = "load"
    /\ files[task[t]].ok
    /\ ~TooSmall(files[task[t]])
    /\ Goto(t, IF config.dedupe_input THEN "check" ELSE "generate")
    /\ UNCHANGED shared
    /\ UNCHANGED <<task, variants, crop_box, variants_hashes, variants_saved, k, tmp>>

InHashesNever(h) == FALSE

InHashes(h) == \E j \in 1..Len(hashes) : hashes[j] = h

\* image_hash = average_hash(...); `if image_hash in hashes:`
CheckHash(t) ==
    /\ Running(t)
    /\ pc[t] = "check"
    /\ Goto(t, IF InHashes(files[task[t]].hash) THEN "dup_read" ELSE "append")
    /\ UNCHANGED shared
    /\ UNCHANGED <<task, variants, crop_box, variants_hashes, variants_saved, k, tmp>>

\* hashes.append(image_hash)
AppendHash(t) ==
    /\ Running(t)
    /\ pc[t] = "append"
    /\ hashes' = Append(hashes, files[task[t]].hash)
    /\ Goto(t, "generate")
    /\ UNCHANGED <<config, files, stats, mainpc, next_file, outcome, written>>
    /\ UNCHANGED <<task, variants, crop_box, variants_hashes, variants_saved, k, tmp>>

\* stats['images_duplicated'] += 1, the read half (DUPLICATE was printed).
DupRead(t) ==
    /\ Running(t)
    /\ pc[t] = "dup_read"
    /\ tmp' = [tmp EXCEPT ![t] = stats.images_duplicated]
    /\ Goto(t, "dup_write")
    /\ UNCHANGED shared
    /\ UNCHANGED <<task, variants, crop_box, variants_hashes, variants_saved, k>>

\* As DupWrite, without the `return` after DUPLICATE: the image goes on to
\* variant generation.
DupWriteNoReturn(t) ==
    /\ Running(t)
    /\ pc[t] = "dup_write"
    /\ stats' = [stats EXCEPT !.images_duplicated = tmp[t] + 1]
    /\ Goto(t, "generate")
    /\ UNCHANGED <<config, files, hashes, mainpc, next_file, outcome, written>>
    /\ UNCHANGED <<task, variants, crop_box, variants_hashes, variants_saved, k, tmp>>

\* stats['images_duplicated'] += 1, the store half; return.
DupWrite(t) ==
    /\ Running(t)
    /\ pc[t] = "dup_write"
    /\ stats' = [stats EXCEPT !.images_duplicated = tmp[t] + 1]
    /\ Ends(t, "DUPLICATE", 0)
    /\ Return(t)
    /\ UNCHANGED <<config, files, hashes, mainpc, next_file, written>>

\* The next variant's number: n of `for n in range(1, config.crops + 1)`.
NextN(t) == Len(variants[t]) + 1

AfterCrop(t) == IF NextN(t) = config.crops THEN "save" ELSE "generate"

\* The fingerprints the next variant may have.  Variant fingerprints are only
\* ever compared with those of the same image's earlier variants, so they are
\* named in order of first appearance: an earlier one, or the next new one.
VariantFps(t) ==
    {fp \in Fps : \/ fp = 1
                  \/ \E j \in 1..Len(variants[t]) : variants[t][j] >= fp - 1}

\* One iteration of the variant loop: the scale, the window, its position
\* (random.randint raises ValueError on an empty range) and the cropped,
\* resized image, kept under its file name (which holds n, so no two
\* variants of one image share a name).  The autocontrast draw changes the
\* pixels only: it is part of the choice of the variant's fingerprint.
Generate(t) ==
    /\ Running(t)
    /\ pc[t] = "generate"
    /\ NextN(t) <= config.crops
    /\ LET image == files[task[t]]
       IN  \E scale \in Scales(image) :
             LET ww == window_width(image, scale)
                 wh == window_height(image, scale)
             IN  IF image.width - ww < 0 \/ image.height - wh < 0
                 THEN /\ Ends(t, "RAISED", 0)
                      /\ Return(t)
                 ELSE /\ \E left \in 0..(image.width - ww),
                            top \in 0..(image.height - wh),
                            fp \in VariantFps(t) :
                          /\ crop_box' = [crop_box EXCEPT
                                 ![t] = <<left, top, left + ww, top + wh>>]
                          /\ variants' = [variants EXCEPT ![t] = Append(@, fp)]
                      /\ Goto(t, AfterCrop(t))
                      /\ k' = [k EXCEPT ![t] = IF AfterCrop(t) = "save" THEN 1 ELSE @]
                      /\ UNCHANGED <<outcome, task, variants_hashes,
                                     variants_saved, tmp>>
    /\ UNCHANGED <<config, files, stats, hashes, mainpc, next_file, written>>

\* A membership test that looks in the global list instead of the local one.
InVariantsHashesGlobal(t, h) == \E j \in 1..Len(hashes) : hashes[j] = h

InVariantsHashesNever(t, h) == FALSE

InVariantsHashes(t, h) ==
    \E j \in 1..Len(variants_hashes[t]) : variants_hashes[t][j] = h

AfterVariant(t) == IF k[t] = Len(variants[t]) THEN "collect_read" ELSE "save"

\* Save loop, `if variant_hash in variants_hashes: continue`
DropVariant(t) ==
    /\ Running(t)
    /\ pc[t] = "save"
    /\ InVariantsHashes(t, variants[t][k[t]])
    /\ k' = [k EXCEPT ![t] = @ + 1]
    /\ Goto(t, AfterVariant(t))
    /\ UNCHANGED shared
    /\ UNCHANGED <<task, variants, crop_box, variants_hashes, variants_saved, tmp>>

\* Save loop, a new hash: append it, image.save(...), variants_saved += 1
SaveVariant(t) ==
    /\ Running(t)
    /\ pc[t] = "save"
    /\ ~InVariantsHashes(t, variants[t][k[t]])
    /\ variants_hashes' = [variants_hashes EXCEPT ![t] = Append(@, variants[t][k[t]])]
    /\ written' = written \cup {<<task[t], k[t]>>}
    /\ variants_saved' = [variants_saved EXCEPT ![t] = @ + 1]
    /\ k' = [k EXCEPT ![t] = @ + 1]
    /\ Goto(t, AfterVariant(t))
    /\ UNCHANGED <<config, files, stats, hashes, mainpc, next_file, outcome>>
    /\ UNCHANGED <<task, variants, crop_box, tmp>>

\* Save loop, a new hash, and image.save(...) raises (disk full, permission
\* denied): nothing in process_image catches it.
SaveError(t) ==
    /\ Running(t)
    /\ pc[t] = "save"
    /\ ~InVariantsHashes(t, variants[t][k[t]])
    /\ Ends(t, "RAISED", 0)
    /\ Return(t)
    /\ UNCHANGED <<config, files, stats, hashes, mainpc, next_file, written>>

\* stats['images_collected'] += variants_saved, the read half.
CollectRead(t) ==
    /\ Running(t)
    /\ pc[t] = "collect_read"
    /\ tmp' = [tmp EXCEPT ![t] = stats.images_collected]
    /\ Goto(t, "collect_write")
    /\ UNCHANGED shared
    /\ UNCHANGED <<task, variants, crop_box, variants_hashes, variants_saved, k>>

\* stats['images_collected'] += variants_saved, the store half; OK and the
\* count are printed; return.
CollectWrite(t) ==
    /\ Running(t)
    /\ pc[t] = "collect_write"
    /\ stats' = [stats EXCEPT !.images_collected = tmp[t] + variants_saved[t]]
    /\ Ends(t, "OK", variants_saved[t])
    /\ Return(t)
    /\ UNCHANGED <<config, files, hashes, mainpc, next_file, written>>

\* ------------------------------------------------------ specifications
Next ==
    \/ Start
    \/ Report
    \/ Abort
    \/ \E t \in Threads : Dispatch(t)
    \/ \E t \in Threads : LoadError(t)
    \/ \E t \in Threads : SkipSmall(t)
    \/ \E t \in Threads : LoadOk(t)
    \/ \E t \in Threads : CheckHash(t)
    \/ \E t \in Threads : AppendHash(t)
    \/ \E t \in Threads : DupRead(t)
    \/ \E t \in Threads : DupWrite(t)
    \/ \E t \in Threads : Generate(t)
    \/ \E t \in Threads : DropVariant(t)
    \/ \E t \in Threads : SaveVariant(t)
    \/ \E t \in Threads : SaveError(t)
    \/ \E t \in Threads : CollectRead(t)
    \/ \E t \in Threads : CollectWrite(t)

Spec == Init /\ [][Next]_vars

\* SpecCrop: process_image on a single source image of any size within the
\* bounds, with and without input dedup, under every target size, crops
\* count and scale range print_config accepts.
CropConfigs ==
    { c \in [threads : {1}, dedupe_input : BOOLEAN, dry : {FALSE},
             crops : 1..MaxCrops, width : 1..MaxTargetW, height : 1..MaxTargetH,
             scale_min : Grid, scale_max : Grid] : ValidConfig(c) }

InitCrop ==
    /\ config \in CropConfigs
    /\ files \in {<<Image(w, h, 1)>> : w \in 1..MaxImageW, h \in 1..MaxImageH}
    /\ InitState

NextCrop ==
    \/ Start
    \/ Report
    \/ Abort
    \/ \E t \in Threads : Dispatch(t)
    \/ \E t \in Threads : SkipSmall(t)
    \/ \E t \in Threads : LoadOk(t)
    \/ \E t \in Threads : CheckHash(t)
    \/ \E t \in Threads : AppendHash(t)
    \/ \E t \in Threads : Generate(t)
    \/ \E t \in Threads : DropVariant(t)
    \/ \E t \in Threads : SaveVariant(t)
    \/ \E t \in Threads : SaveError(t)
    \/ \E t \in Threads : CollectRead(t)
    \/ \E t \in Threads : CollectWrite(t)

SpecCrop == InitCrop /\ [][NextCrop]_vars

\* SpecCopies: a run with input dedup on over MaxFiles + 1 copies of one
\* large-enough image, one crop each, in which every write succeeds.
InitCopies ==
    /\ config \in {c \in PipelineConfigs : c.dedupe_input /\ ~c.dry /\ c.crops = 1}
    /\ files = [i \in 1..(MaxFiles + 1) |-> Image(2, 2, 1)]
    /\ InitState

NextCopies ==
    \/ Start
    \/ Report
    \/ \E t \in Threads : Dispatch(t)
    \/ \E t \in Threads : LoadOk(t)
    \/ \E t \in Threads : CheckHash(t)
    \/ \E t \in Threads : AppendHash(t)
    \/ \E t \in Threads : DupRead(t)
    \/ \E t \in Threads : DupWrite(t)
    \/ \E t \in Threads : Generate(t)
    \/ \E t \in Threads : SaveVariant(t)
    \/ \E t \in Threads : CollectRead(t)
    \/ \E t \in Threads : CollectWrite(t)

SpecCopies == InitCopies /\ [][NextCopies]_vars

\* SpecScenario: process_image with --width 1024 --height 1024 --crops 3
\* --scale-min 0.8 --scale-max 1.0, input dedup off, on a single source of
\* 2000x1000 or of 1040x1024 pixels.
ScenarioConfigs ==
    [threads : {1}, dedupe_input : {FALSE}, dry : {FALSE},
     crops : {3}, width : {1024}, height : {1024},
     scale_min : {<<4, 5>>}, scale_max : {<<1, 1>>}]

InitScenario ==
    /\ config \in ScenarioConfigs
    /\ files \in {<<Image(2000, 1000, 1)>>, <<Image(1040, 1024, 1)>>}
    /\ InitState

NextScenario ==
    \/ Start
    \/ Report
    \/ Abort
    \/ \E t \in Threads : Dispatch(t)
    \/ \E t \in Threads : SkipSmall(t)
    \/ \E t \in Threads : LoadOk(t)
    \/ \E t \in Threads : Generate(t)
    \/ \E t \in Threads : DropVariant(t)
    \/ \E t \in Threads : SaveVariant(t)
    \/ \E t \in Threads : SaveError(t)
    \/ \E t \in Threads : CollectRead(t)
    \/ \E t \in Threads : CollectWrite(t)

SpecScenario == InitScenario /\ [][NextScenario]_vars

\* ------------------------------------------------------------- claims
FileIds == 1..Len(files)

LargeEnough(i) ==
    /\ files[i].ok
    /\ files[i].width >= config.width
    /\ files[i].height >= config.height

\* File i got past the global-dedup step: it is at, or went through, variant
\* generation.
PastDedup(i) ==
    \/ outcome[i].tag \in {"OK", "RAISED"}
    \/ \E t \in Threads :
          /\ task[t] = i
          /\ pc[t] \in {"generate", "save", "collect_read", "collect_write"}

\* The output files written for file i.
Persisted(i) == {w \in written : w[1] = i}

WithTag(tag) == {i \in FileIds : outcome[i].tag = tag}

RECURSIVE CollectedUpTo(_)
CollectedUpTo(i) ==
    IF i = 0 THEN 0
    ELSE CollectedUpTo(i - 1)
         + (IF outcome[i].tag = "OK" THEN outcome[i].count ELSE 0)

\* C1: with global dedup on, of the large-enough source images that share a
\* fingerprint at most one gets past the global-dedup step, in every
\* interleaving.
C1_DedupCriticalSection ==
    config.dedupe_input =>
        \A i, j \in FileIds :
            (i # j /\ LargeEnough(i) /\ LargeEnough(j)
                   /\ files[i].hash = files[j].hash)
                => ~(PastDedup(i) /\ PastDedup(j))

\* C2: once every file is in a terminal state, images_collected is the sum
\* of the OK images' persisted counts and images_duplicated is the number of
\* DUPLICATE images.
C2_NoLostUpdates ==
    (\A i \in FileIds : Terminal(i)) =>
        /\ stats.images_collected = CollectedUpTo(Len(files))
        /\ stats.images_duplicated = Cardinality(WithTag("DUPLICATE"))

\* C3: with global dedup on, the same source image (large enough, no call
\* raising) processed twice in one run ends once OK or SKIPPED and once
\* DUPLICATE, and images_duplicated is 1, for any worker count.
C3_DedupIdempotence ==
    (/\ config.dedupe_input
     /\ Len(files) = 2
     /\ files[1] = files[2]
     /\ LargeEnough(1)
     /\ Terminal(1) /\ Terminal(2))
    => /\ Cardinality(WithTag("OK") \cup WithTag("SKIPPED")) = 1
       /\ Cardinality(WithTag("DUPLICATE")) = 1
       /\ stats.images_duplicated = 1

\* C4: one worker, global dedup on, two identical large-enough files: at the
\* end of the run the first is OK with at least one persisted variant, the
\* second is DUPLICATE with none, and images_duplicated = 1.
C4_TwoIdenticalFiles ==
    (/\ config.threads = 1
     /\ config.dedupe_input
     /\ Len(files) = 2
     /\ files[1] = files[2]
     /\ LargeEnough(1)
     /\ mainpc = "reported")
    => /\ outcome[1].tag = "OK"
       /\ outcome[1].count >= 1
       /\ Cardinality(Persisted(1)) = outcome[1].count
       /\ outcome[2].tag = "DUPLICATE"
       /\ Persisted(2) = {}
       /\ stats.images_duplicated = 1

C4_Witness ==
    /\ config.threads = 1
    /\ config.dedupe_input
    /\ Len(files) = 2
    /\ files[1] = files[2]
    /\ LargeEnough(1)
    /\ mainpc = "reported"
    /\ outcome[2].tag = "DUPLICATE"

\* C5: the run never aborts because of a single file's failure: a failed
\* write of one image's variant does not end run() before the statistics
\* are reported.
C5_RunNeverAborts == mainpc # "aborted"

\* The step that ends a file ERROR.
C6_DecodeStep ==
    \A i \in FileIds :
        (outcome[i].tag = "none" /\ outcome'[i].tag = "ERROR")
        => /\ stats' = stats
           /\ hashes' = hashes
           /\ written' = written
           /\ mainpc' = "running"
           /\ \A t \in Threads : task[t] = i => pc'[t] = "idle"

\* What holds of a file that does not decode, and of a reported run.
C6_DecodeState ==
    \A i \in FileIds :
        /\ (~files[i].ok /\ outcome[i].tag # "none")
              => (outcome[i].tag = "ERROR" /\ Persisted(i) = {})
        /\ (~files[i].ok) => \A t \in Threads : task[t] = i => pc[t] = "load"
        /\ mainpc = "reported" => Terminal(i)
        /\ mainpc = "aborted" => \E j \in FileIds : outcome[j].tag = "RAISED" /\ files[j].ok

\* C6: a decode failure ends the image ERROR with no file written, leaves
\* both counters and the global index unchanged, and does not stop the run:
\* its thread is free for the next file, run() goes on, and a file that does
\* not decode never makes the run abort.
C6_DecodeFailure == [][C6_DecodeStep]_vars /\ []C6_DecodeState

C6_Witness ==
    /\ mainpc = "reported"
    /\ \E i, j \in FileIds : i < j /\ outcome[i].tag = "ERROR" /\ outcome[j].tag = "OK"

\* The step that ends a file SKIPPED.
C7_SkipStep ==
    \A i \in FileIds :
        (outcome[i].tag = "none" /\ outcome'[i].tag = "SKIPPED")
        => /\ stats' = stats
           /\ hashes' = hashes
           /\ written' = written

\* What holds of a decoded image smaller than the target (in SpecCrop, the
\* only file of the run).
C7_SkipState ==
    \A i \in FileIds :
        (files[i].ok /\ (files[i].width < config.width
                         \/ files[i].height < config.height))
        => /\ outcome[i].tag \in {"none", "SKIPPED"}
           /\ Persisted(i) = {}
           /\ \A t \in Threads : task[t] = i => pc[t] = "load"
           /\ outcome[i].tag = "SKIPPED" => (stats.images_collected = 0
                                             /\ stats.images_duplicated = 0
                                             /\ hashes = <<>>)

\* C7: a source image narrower or lower than the target ends SKIPPED: it
\* never gets past the size check, no file is written for it, and the step
\* that ends it changes neither counter nor the global index.
C7_Skipped == [][C7_SkipStep]_vars /\ []C7_SkipState

C7_Witness ==
    /\ config.dedupe_input
    /\ files[1].width >= config.width
    /\ files[1].height < config.height
    /\ outcome[1].tag = "SKIPPED"
    /\ mainpc = "reported"

\* The step that ends a file DUPLICATE.
C8_DuplicateStep ==
    \A i \in FileIds :
        (outcome[i].tag = "none" /\ outcome'[i].tag = "DUPLICATE")
        => /\ stats'.images_duplicated = stats.images_duplicated + 1
           /\ stats'.images_collected = stats.images_collected
           /\ hashes' = hashes
           /\ written' = written
           /\ Persisted(i) = {}
           /\ \A t \in Threads : task[t] = i => variants[t] = <<>>

\* C8: the step that ends an image DUPLICATE raises images_duplicated by
\* exactly 1 and leaves images_collected, the global index and the output
\* files unchanged; no variant of the image was generated.
C8_DuplicateEffect == [][C8_DuplicateStep]_vars

\* max(scale_min, config.scale_min) of the crop loop, for file i.
ScaleMinEff(i) == RMax(<<config.width, WindowMax(files[i])[1]>>, config.scale_min)

\* C9: under a valid configuration with scaleMinEff <= scaleMax, every crop
\* rectangle generated is at least as wide and as high as the target.
C9_EffectiveScaleFloor ==
    \A t \in Threads :
        (/\ task[t] # 0
         /\ Len(variants[t]) >= 1
         /\ ValidConfig(config)
         /\ Leq(ScaleMinEff(task[t]), config.scale_max))
        => /\ crop_box[t][3] - crop_box[t][1] >= config.width
           /\ crop_box[t][4] - crop_box[t][2] >= config.height

Distinct(seq) == {seq[j] : j \in 1..Len(seq)}

\* C10: for an image that reached the Generate step, the number of persisted
\* variants is between 0 and crops, and never more than the number of
\* distinct fingerprints among its generated variants; the count reported
\* with OK is that number.
C10_VariantCap ==
    /\ \A i \in FileIds :
          /\ Cardinality(Persisted(i)) <= config.crops
          /\ outcome[i].tag = "OK" => outcome[i].count = Cardinality(Persisted(i))
    /\ \A t \in Threads :
          pc[t] \in {"save", "collect_read", "collect_write"}
          => /\ Len(variants[t]) = config.crops
             /\ variants_saved[t] = Cardinality(Persisted(task[t]))
             /\ variants_saved[t] <= Cardinality(Distinct(variants[t]))
             /\ variants_saved[t] <= config.crops

C10_Witness ==
    \E t \in Threads :
        /\ pc[t] = "collect_read"
        /\ variants_saved[t] = 1
        /\ Cardinality(Distinct(variants[t])) = 1
        /\ config.crops = 2

\* C11: in every reachable state, and so after the run completes,
\* images_collected + crops * images_duplicated <= crops * selected_count,
\* for any worker count and interleaving.
C11_AggregateConsistency ==
    stats.images_collected + config.crops * stats.images_duplicated
        <= config.crops * Len(files)

C11_Witness ==
    /\ mainpc = "reported"
    /\ config.threads = 2
    /\ stats.images_duplicated = 1
    /\ stats.images_collected = config.crops
    /\ Len(files) = 2

\* C12: an image whose scaleMinEff = max(scaleMin, targetWidth / windowWidth)
\* exceeds scaleMax ends with a per-image error: no variant of it is
\* generated or persisted, and it does not end OK.
C12_InvalidScaleRange ==
    \A i \in FileIds :
        (LargeEnough(i) /\ ~Leq(ScaleMinEff(i), config.scale_max))
        => /\ outcome[i].tag # "OK"
           /\ Persisted(i) = {}
           /\ \A t \in Threads : task[t] = i => variants[t] = <<>>

\* C13: a dry run never dispatches a worker: run() exits after selection,
\* no file is handed to process_image, nothing is written, and the
\* statistics and the global index stay at their initial values.
C13_DryRun ==
    config.dry =>
        /\ mainpc \in {"start", "exited"}
        /\ next_file = 1
        /\ \A t \in Threads : pc[t] = "idle" /\ task[t] = 0
        /\ \A i \in FileIds : outcome[i] = NoOutcome
        /\ written = {}
        /\ stats = [images_collected |-> 0, images_duplicated |-> 0]
        /\ hashes = <<>>

C13_Witness == config.dry /\ mainpc = "exited" /\ Len(files) = 2

\* n is the integer nearest to num / den, the even one of the two on a tie.
Nearest(n, num, den) ==
    LET d == IF n * den >= num THEN n * den - num ELSE num - n * den
    IN  /\ 2 * d <= den
        /\ 2 * d = den => n % 2 = 0

\* C14: for every source size (w, h) and target ratio r = W / H,
\* get_max_window_size returns (ww, wh) with ww <= w and wh <= h: (w, h)
\* when r = w/h, (w, round(w / r)) when r > w/h, (round(h * r), h) when
\* r < w/h.
C14_WindowSizer ==
    \A i \in FileIds :
        files[i].ok =>
            LET w == files[i].width
                h == files[i].height
                W == config.width
                H == config.height
                window == get_max_window_size(files[i], <<W, H>>)
            IN  /\ window[1] <= w
                /\ window[2] <= h
                /\ W * h = w * H => window = <<w, h>>
                /\ W * h > w * H => /\ window[1] = w
                                    /\ Nearest(window[2], w * H, W)
                /\ W * h < w * H => /\ window[2] = h
                                    /\ Nearest(window[1], h * W, H)

C14_Witness ==
    /\ Len(variants[1]) >= 1
    /\ config.width * files[1].height < files[1].width * config.height
    /\ (files[1].height * config.width) % config.height # 0
    /\ crop_box[1][3] - crop_box[1][1]
           <= get_max_window_size(files[1], <<config.width, config.height>>)[1]

\* The 2000x1000 sources of the scenario.
ScenarioSources ==
    {i \in FileIds : files[i].ok /\ files[i].width = 2000 /\ files[i].height = 1000}

\* The scenario as first stated: the 2000x1000 source is not skipped, the
\* variant loop works on window (1000, 1000), leaves 3 variants, and every
\* crop region is between 800x800 and 1000x1000.
C15_ScenarioGenerates ==
    \A i \in ScenarioSources :
        /\ outcome[i].tag # "SKIPPED"
        /\ \A t \in Threads :
               task[t] = i =>
                   /\ pc[t] \in {"save", "collect_read", "collect_write"}
                          => Len(variants[t]) = 3
                   /\ Len(variants[t]) >= 1 =>
                          LET cw == crop_box[t][3] - crop_box[t][1]
                              ch == crop_box[t][4] - crop_box[t][2]
                          IN  /\ 800 <= cw /\ cw <= 1000
                              /\ 800 <= ch /\ ch <= 1000

\* C15: with target 1024x1024, crops = 3, scale 0.8..1.0 and dedup off, the
\* window of a 2000x1000 source is (1000, 1000), and the source fails the
\* size check (1000 < 1024): it ends SKIPPED, never reaches the variant
\* loop, no variant is generated or written and no counter changes.
C15_ScenarioSkipped ==
    \A i \in ScenarioSources :
        /\ get_max_window_size(files[i], <<config.width, config.height>>)
               = <<1000, 1000>>
        /\ outcome[i].tag \in {"none", "SKIPPED"}
        /\ \A t \in Threads :
               task[t] = i => /\ pc[t] \in {"idle", "load"}
                              /\ variants[t] = <<>>
                              /\ crop_box[t] = NoBox
        /\ Persisted(i) = {}
        /\ stats = [images_collected |-> 0, images_duplicated |-> 0]

C15_Witness ==
    /\ ScenarioSources = {1}
    /\ config.crops = 3
    /\ outcome[1].tag = "SKIPPED"
    /\ mainpc = "reported"

\* C16: for one source image, variant n is persisted iff no variant m < n of
\* the same image has the same fingerprint, whatever the other images and
\* the global index hold; once the save loop is through, the number of
\* persisted variants is the number of distinct fingerprints among the
\* generated variants.
C16_FirstOccurrenceKept ==
    \A t \in Threads :
        pc[t] \in {"save", "collect_read", "collect_write"} =>
            LET i == task[t]
                v == variants[t]
                done == IF pc[t] = "save" THEN k[t] - 1 ELSE Len(v)
            IN  /\ \A n \in 1..done :
                       <<i, n>> \in written <=> \A m \in 1..(n - 1) : v[m] # v[n]
                /\ \A n \in (done + 1)..Len(v) : <<i, n>> \notin written
                /\ pc[t] # "save" =>
                       /\ Len(v) = config.crops
                       /\ Cardinality(Persisted(i)) = Cardinality(Distinct(v))
                       /\ variants_saved[t] = Cardinality(Distinct(v))

C16_Witness ==
    \E t \in Threads :
        /\ pc[t] = "collect_read"
        /\ Len(variants[t]) = 2
        /\ variants[t][1] = variants[t][2]
        /\ written = {<<task[t], 1>>}
        /\ hashes # <<>>

\* C17: no file is in the hands of two workers, and when the run has ended
\* (the result loop is over, with the statistics reported or not) every
\* selected file is in one of the terminal states SKIPPED, DUPLICATE, OK
\* and ERROR.
C17_EveryFileTerminal ==
    /\ \A t, u \in Threads : (t # u /\ task[t] # 0) => task[t] # task[u]
    /\ \A i \in FileIds : i >= next_file => outcome[i] = NoOutcome
    /\ mainpc \in {"reported", "aborted"} => \A i \in FileIds : Terminal(i)

\* The crop box of every thread that has cropped lies inside its source image.
C18_BoxInside ==
    \A t \in Threads :
        (task[t] # 0 /\ Len(variants[t]) >= 1) =>
            LET image == files[task[t]]
                left == crop_box[t][1]
                top == crop_box[t][2]
                right == crop_box[t][3]
                bottom == crop_box[t][4]
            IN  /\ 0 <= left /\ left <= right /\ right <= image.width
                /\ 0 <= top /\ top <= bottom /\ bottom <= image.height

\* No iteration of the variant loop ends the image with an exception.
C18_NoEmptyRange ==
    \A t \in Threads :
        pc[t] = "generate" =>
            /\ pc'[t] \in {"generate", "save"}
            /\ outcome' = outcome

\* C18: for every image that passes the size check, under every accepted
\* configuration (0 <= scale_min <= scale_max <= 1), the ranges
\* [0, width - window_width] and [0, height - window_height] are not empty
\* (randint does not raise), and the crop box lies inside the source image.
C18_CropInsideSource == []C18_BoxInside /\ [][C18_NoEmptyRange]_vars

C18_Witness ==
    /\ Len(variants[1]) >= 1
    /\ crop_box[1][1] > 0
    /\ crop_box[1][3] = files[1].width
    /\ crop_box[1][4] = files[1].height
    /\ crop_box[1][3] - crop_box[1][1] >= 1

\* The files handed to process_image that have no outcome yet.
InProcess == {i \in FileIds : i < next_file /\ outcome[i].tag = "none"}

\* C19: at every moment of a run the number of source images in process
\* (handed to a worker, not yet ended) is at most config.threads.
C19_PoolBounded ==
    /\ Cardinality(InProcess) <= config.threads
    /\ Cardinality({t \in Threads : pc[t] # "idle"}) <= config.threads

C19_Witness ==
    /\ config.threads = 2
    /\ Cardinality(InProcess) = 2
    /\ \A t \in 1..2 : pc[t] \notin {"idle", "load"}

\* The step that ends file i with outcome OK.
EndsOk(i) == outcome[i].tag = "none" /\ outcome'[i].tag = "OK"

\* C20: an image that ends OK has its first generated variant persisted,
\* reports a count >= 1, and the step that ends it adds at least 1 to
\* images_collected.
C20_OkAddsAtLeastOne ==
    [][\A i \in FileIds :
           EndsOk(i) => /\ <<i, 1>> \in written
                        /\ outcome'[i].count >= 1
                        /\ stats'.images_collected >= stats.images_collected + 1]_vars
====
